---- MODULE Spec2Model ----
(***************************************************************************)
(* Vote ledger of the forum backend: the handlers POST /post-upvote/:id    *)
(* and POST /post-downvote/:id (castVote) and DELETE /delete-post/:id,     *)
(* run against the posts collection of the document store.                 *)
(*                                                                         *)
(* A vote handler is two store operations separated by an await: findOne   *)
(* (the read) and updateOne (the write).  Each store operation is atomic   *)
(* on one document; anything may run between the two.                      *)
(***************************************************************************)
EXTENDS Integers, Sequences, FiniteSets, TLC

\* Bounds of the model.
MaxCalls == 3        \* vote requests in one run of Spec
MaxSeqCalls == 5     \* vote requests in one run of SeqSpec
MaxPairCalls == 2    \* vote requests in one run of VotedSpec
MaxFaultCalls == 2   \* vote requests in one run of FaultSpec
MaxLiveCalls == 2    \* vote requests in one run of LiveSpec
MaxAuthCalls == 2    \* vote requests in one run of AuthSpec
MaxAdminCalls == 2   \* requests in one run of AdminSpec
MaxUserCalls == 3    \* requests in one run of NewUserSpec
MaxCommentCalls == 3 \* requests in one run of CommentSpec
MaxTagCalls == 3     \* requests in one run of TagSpec
MaxListCalls == 2    \* requests in one run of ListSpec
MaxReadCalls == 2    \* requests in one run of ReadSpec

PostIds == {"p1", "p2"}
UserEmails == {"a@forum", "b@forum"}
VoteTypes == {"up", "down"}

\* A :id that is no ObjectId string, and the userEmail of a body without one.
MalformedId == "not-an-id"
MissingEmail == "undefined"

VARIABLES
    postCollection,  \* the posts collection: _id -> document
    userCollection,  \* the users collection: its documents, oldest first
    commentCollection,  \* the comments collection: a set of documents
    tagsCollection,  \* the tags collection: its documents, oldest first
    calls            \* the requests received so far, in order of their read

vars == <<postCollection, userCollection, commentCollection, tagsCollection,
          calls>>

-----------------------------------------------------------------------------
(* Values *)

\* findOne's answer when no document matches.
Null == [null |-> TRUE]

\* Array.prototype.find's answer when no element matches.
Undefined == [undefined |-> TRUE]

\* The part of a post the vote handlers read and write: the embedded
\* votes array and the two counters.
PostDoc(votes, upVotes, downVotes) ==
    [votes |-> votes, upVotes |-> upVotes, downVotes |-> downVotes]

\* The rest of a post, which the vote handlers never name.
Payload(id) ==
    [authorEmail |-> IF id = "p1" THEN "a@forum" ELSE "b@forum",
     visibility |-> "public", commentsCount |-> 0,
     tags |-> IF id = "p1" THEN <<"js">> ELSE <<"go", "js">>,
     createdAt |-> IF id = "p1" THEN 1 ELSE 2]

Min(S) == CHOOSE x \in S : \A y \in S : x <= y

-----------------------------------------------------------------------------
(* The document store *)

\* A faulty findOne: an empty post where no document matches, so that the
\* handlers' 404 test never fires.
FindOneNeverNull(coll, id) ==
    IF id \in DOMAIN coll THEN coll[id] ELSE PostDoc(<<>>, 0, 0)

\* collection.findOne({_id: id})
FindOne(coll, id) == IF id \in DOMAIN coll THEN coll[id] ELSE Null

\* collection.deleteOne({_id: id})
DeleteOne(coll, id) == [i \in DOMAIN coll \ {id} |-> coll[i]]

\* A value as the driver writes it into a document or a filter: undefined
\* is written as null (ignoreUndefined is not set).
Bson(value) == IF value = "undefined" THEN "null" ELSE value

\* new ObjectId(id) accepts the id; otherwise it throws.
ValidObjectId(id) == id \in PostIds

\* The indexes of votes whose userEmail is userEmail.
VoteIndexes(votes, userEmail) ==
    {i \in 1..Len(votes) : votes[i].userEmail = userEmail}

\* A faulty $pull whose condition matches every element.
PullEveryVote(votes, userEmail) == <<>>

\* $pull: {votes: {userEmail}} removes every matching element.
Pull(votes, userEmail) ==
    SelectSeq(votes, LAMBDA v : v.userEmail # Bson(userEmail))

\* $push: {votes: {userEmail, voteType}} appends one element.
Push(votes, userEmail, voteType) ==
    Append(votes, [userEmail |-> Bson(userEmail), voteType |-> voteType])

\* $set: {"votes.$.voteType": voteType} under the filter
\* "votes.userEmail": userEmail sets the first matching element.
SetPositional(votes, userEmail, voteType) ==
    [votes EXCEPT ![Min(VoteIndexes(votes, Bson(userEmail)))].voteType = voteType]

\* post.votes?.find((vote) => vote.userEmail === userEmail)
ExistingVote(post, userEmail) ==
    IF VoteIndexes(post.votes, userEmail) = {}
    THEN Undefined
    ELSE post.votes[Min(VoteIndexes(post.votes, userEmail))]

-----------------------------------------------------------------------------
(* The six updateOne calls of the two vote handlers.  An updateOne whose   *)
(* filter matches no document changes nothing and reports no error; one    *)
(* that matches changes the fields its operators name and no other.        *)

\* updateOne({_id}, {$pull: {votes: {userEmail}}, $inc: {upVotes: -1}})
UpvoteRemove(coll, id, userEmail) ==
    IF id \in DOMAIN coll
    THEN [coll EXCEPT ![id] =
            [@ EXCEPT !.votes = Pull(@, userEmail),
                      !.upVotes = @ - 1]]
    ELSE coll

\* A faulty upvote switch: the $inc of downVotes is left out.
UpvoteSwitchKeepsDownVotes(coll, id, userEmail) ==
    IF id \in DOMAIN coll /\ VoteIndexes(coll[id].votes, Bson(userEmail)) # {}
    THEN [coll EXCEPT ![id] =
            [@ EXCEPT !.votes = SetPositional(@, userEmail, "up"),
                      !.upVotes = @ + 1]]
    ELSE coll

\* updateOne({_id, "votes.userEmail": userEmail},
\*           {$set: {"votes.$.voteType": "up"}, $inc: {upVotes: 1, downVotes: -1}})
UpvoteSwitch(coll, id, userEmail) ==
    IF id \in DOMAIN coll /\ VoteIndexes(coll[id].votes, Bson(userEmail)) # {}
    THEN [coll EXCEPT ![id] =
            [@ EXCEPT !.votes = SetPositional(@, userEmail, "up"),
                      !.upVotes = @ + 1,
                      !.downVotes = @ - 1]]
    ELSE coll

\* A faulty upvote insertion: the update is given as a whole document, so
\* the post is replaced by its vote fields.
UpvoteAddReplacesPost(coll, id, userEmail) ==
    IF id \in DOMAIN coll
    THEN [coll EXCEPT ![id] =
            PostDoc(Push(@.votes, userEmail, "up"), @.upVotes + 1, @.downVotes)]
    ELSE coll

\* updateOne({_id}, {$push: {votes: {userEmail, voteType: "up"}}, $inc: {upVotes: 1}})
UpvoteAdd(coll, id, userEmail) ==
    IF id \in DOMAIN coll
    THEN [coll EXCEPT ![id] =
            [@ EXCEPT !.votes = Push(@, userEmail, "up"),
                      !.upVotes = @ + 1]]
    ELSE coll

\* A faulty downvote removal: the $inc names upVotes, as in the upvote
\* handler it was copied from.
DownvoteRemoveDecrementsUpVotes(coll, id, userEmail) ==
    IF id \in DOMAIN coll
    THEN [coll EXCEPT ![id] =
            [@ EXCEPT !.votes = Pull(@, userEmail),
                      !.upVotes = @ - 1]]
    ELSE coll

\* updateOne({_id}, {$pull: {votes: {userEmail}}, $inc: {downVotes: -1}})
DownvoteRemove(coll, id, userEmail) ==
    IF id \in DOMAIN coll
    THEN [coll EXCEPT ![id] =
            [@ EXCEPT !.votes = Pull(@, userEmail),
                      !.downVotes = @ - 1]]
    ELSE coll

\* A faulty downvote switch: the $inc of downVotes is left out.
DownvoteSwitchKeepsDownVotes(coll, id, userEmail) ==
    IF id \in DOMAIN coll /\ VoteIndexes(coll[id].votes, Bson(userEmail)) # {}
    THEN [coll EXCEPT ![id] =
            [@ EXCEPT !.votes = SetPositional(@, userEmail, "down"),
                      !.upVotes = @ - 1]]
    ELSE coll

\* updateOne({_id, "votes.userEmail": userEmail},
\*           {$set: {"votes.$.voteType": "down"}, $inc: {downVotes: 1, upVotes: -1}})
DownvoteSwitch(coll, id, userEmail) ==
    IF id \in DOMAIN coll /\ VoteIndexes(coll[id].votes, Bson(userEmail)) # {}
    THEN [coll EXCEPT ![id] =
            [@ EXCEPT !.votes = SetPositional(@, userEmail, "down"),
                      !.upVotes = @ - 1,
                      !.downVotes = @ + 1]]
    ELSE coll

\* updateOne({_id}, {$push: {votes: {userEmail, voteType: "down"}}, $inc: {downVotes: 1}})
DownvoteAdd(coll, id, userEmail) ==
    IF id \in DOMAIN coll
    THEN [coll EXCEPT ![id] =
            [@ EXCEPT !.votes = Push(@, userEmail, "down"),
                      !.downVotes = @ + 1]]
    ELSE coll

-----------------------------------------------------------------------------
(* Requests *)

\* A vote request after its findOne: the handler's locals (id, userEmail,
\* post), where it stands (pc) and, once answered, its response: the
\* status, the object sent (body) and that object's message.
Call(route, id, userEmail, post, pc, status, message) ==
    [route |-> route, id |-> id, userEmail |-> userEmail, post |-> post,
     pc |-> pc, status |-> status, message |-> message,
     body |-> IF pc = "done" THEN [message |-> message] ELSE Undefined]

\* res.status(404).send({message: "Post not found"})
NotFound(route, id, userEmail) ==
    Call(route, id, userEmail, Null, "done", 404, "Post not found")

\* The handler suspended at its await of updateOne.
Awaiting(route, id, userEmail, post) ==
    Call(route, id, userEmail, post, "updateOne", 0, "")

\* res.send({message}): status 200.
Send(call, message) ==
    [call EXCEPT !.pc = "done", !.status = 200, !.message = message,
                 !.body = [message |-> message]]

\* A catch block that logs the error and sends nothing.
CatchWithoutResponse(call) == [call EXCEPT !.pc = "thrown"]

\* A catch block that blames the request.
CatchAsBadRequest(call) ==
    [call EXCEPT !.pc = "done", !.status = 400,
                 !.message = "Internal server error",
                 !.body = [message |-> "Internal server error"]]

\* catch (error): res.status(500).send({message: "Internal server error"})
Catch(call) ==
    [call EXCEPT !.pc = "done", !.status = 500,
                 !.message = "Internal server error",
                 !.body = [message |-> "Internal server error"]]

\* No handler stands between its read and its write.
NoCallInProgress == \A c \in 1..Len(calls) : calls[c].pc = "done"

\* The branch the upvote handler takes on the post it read.
UpvoteBranch(post, userEmail) ==
    IF ExistingVote(post, userEmail) # Undefined
    THEN IF ExistingVote(post, userEmail).voteType = "up"
         THEN "remove"
         ELSE "switch"
    ELSE "add"

\* The updateOne the upvote handler issues in each branch.
UpvoteUpdateOne(coll, id, userEmail, branch) ==
    CASE branch = "remove" -> UpvoteRemove(coll, id, userEmail)
      [] branch = "switch" -> UpvoteSwitch(coll, id, userEmail)
      [] branch = "add" -> UpvoteAdd(coll, id, userEmail)

\* The message the upvote handler sends in each branch.
UpvoteMessage(branch) ==
    CASE branch = "remove" -> "Upvote removed"
      [] branch = "switch" -> "Vote switched to upvote"
      [] branch = "add" -> "Upvote added"

\* The branch the downvote handler takes on the post it read.
DownvoteBranch(post, userEmail) ==
    IF ExistingVote(post, userEmail) # Undefined
    THEN IF ExistingVote(post, userEmail).voteType = "down"
         THEN "remove"
         ELSE "switch"
    ELSE "add"

\* The updateOne the downvote handler issues in each branch.
DownvoteUpdateOne(coll, id, userEmail, branch) ==
    CASE branch = "remove" -> DownvoteRemove(coll, id, userEmail)
      [] branch = "switch" -> DownvoteSwitch(coll, id, userEmail)
      [] branch = "add" -> DownvoteAdd(coll, id, userEmail)

\* The message the downvote handler sends in each branch.
DownvoteMessage(branch) ==
    CASE branch = "remove" -> "Downvote removed"
      [] branch = "switch" -> "Vote switched to downvote"
      [] branch = "add" -> "Downvote added"

-----------------------------------------------------------------------------
(* Actions *)

\* The posts as /new-post's clients create them: no votes, counters 0.
InitialPosts == [id \in PostIds |-> PostDoc(<<>>, 0, 0) @@ Payload(id)]

\* An _id the driver generated, and the same value after JSON.stringify.
ObjectId(hex) == [bson |-> "ObjectId", value |-> hex]
String(value) == [bson |-> "string", value |-> value]

UserDoc(id, email, role) == [_id |-> id, email |-> email, role |-> role]

\* The users as /new-user stores them (the driver generates _id), one of
\* them made an admin.
InitialUsers ==
    <<UserDoc(ObjectId(1), "a@forum", "admin"),
      UserDoc(ObjectId(2), "b@forum", "user")>>

\* The positions of the users with this email, and with this _id.
UsersByEmail(coll, email) == {i \in DOMAIN coll : coll[i].email = email}
UsersById(coll, id) == {i \in DOMAIN coll : coll[i]._id = id}

\* userCollection.findOne({_id: id}): a string matches no ObjectId.
FindUserById(coll, id) ==
    IF UsersById(coll, id) # {} THEN coll[Min(UsersById(coll, id))] ELSE Null

\* userCollection.findOne({email})
FindUserByEmail(coll, email) ==
    IF UsersByEmail(coll, email) # {}
    THEN coll[Min(UsersByEmail(coll, email))]
    ELSE Null

\* userCollection.updateOne({email}, {$set: {role}}): the first match.
SetRole(coll, email, role) ==
    IF UsersByEmail(coll, email) # {}
    THEN [coll EXCEPT ![Min(UsersByEmail(coll, email))].role = role]
    ELSE coll

\* The emails of the registered users.
Registered(coll) == {coll[i].email : i \in DOMAIN coll}

Init ==
    /\ postCollection = InitialPosts
    /\ userCollection = InitialUsers
    /\ commentCollection = {}
    /\ tagsCollection = <<>>
    /\ calls = <<>>

\* A vote handler up to its await of updateOne: new ObjectId(id), which
\* throws into the catch block, the read and the 404 answer.
VoteFind(route, id, userEmail) ==
    IF ~ValidObjectId(id)
    THEN Catch(Awaiting(route, id, userEmail, Null))
    ELSE IF FindOne(postCollection, id) = Null
    THEN NotFound(route, id, userEmail)
    ELSE Awaiting(route, id, userEmail, FindOne(postCollection, id))

\* POST /post-upvote/:id up to its await of updateOne.
PostUpvoteFind(id, userEmail) ==
    /\ calls' = Append(calls, VoteFind("post-upvote", id, userEmail))
    /\ UNCHANGED <<postCollection, userCollection, commentCollection,
                   tagsCollection>>

\* POST /post-upvote/:id from the search for the user's vote in the post
\* it read, through its updateOne, to its response.
PostUpvoteUpdate(c) ==
    /\ calls[c].route = "post-upvote"
    /\ calls[c].pc = "updateOne"
    /\ LET branch == UpvoteBranch(calls[c].post, calls[c].userEmail)
       IN  /\ postCollection' = UpvoteUpdateOne(postCollection, calls[c].id,
                                                calls[c].userEmail, branch)
           /\ calls' = [calls EXCEPT ![c] = Send(@, UpvoteMessage(branch))]
    /\ UNCHANGED <<userCollection, commentCollection, tagsCollection>>

\* POST /post-downvote/:id up to its await of updateOne.
PostDownvoteFind(id, userEmail) ==
    /\ calls' = Append(calls, VoteFind("post-downvote", id, userEmail))
    /\ UNCHANGED <<postCollection, userCollection, commentCollection,
                   tagsCollection>>

\* POST /post-downvote/:id from the search for the user's vote in the post
\* it read, through its updateOne, to its response.
PostDownvoteUpdate(c) ==
    /\ calls[c].route = "post-downvote"
    /\ calls[c].pc = "updateOne"
    /\ LET branch == DownvoteBranch(calls[c].post, calls[c].userEmail)
       IN  /\ postCollection' = DownvoteUpdateOne(postCollection, calls[c].id,
                                                  calls[c].userEmail, branch)
           /\ calls' = [calls EXCEPT ![c] = Send(@, DownvoteMessage(branch))]
    /\ UNCHANGED <<userCollection, commentCollection, tagsCollection>>

\* DELETE /delete-post/:id: the post document is removed.  (The handler
\* then removes the post's comments, which the vote ledger does not read;
\* DeletePostDeleteOne and DeletePostDeleteMany are the handler with them.)
DeletePost(id) ==
    /\ id \in DOMAIN postCollection
    /\ postCollection' = DeleteOne(postCollection, id)
    /\ UNCHANGED <<calls, userCollection, commentCollection, tagsCollection>>

\* Requests arrive and store operations complete in any order.
Next ==
    \/ \E id \in PostIds, userEmail \in UserEmails :
          Len(calls) < MaxCalls /\ PostUpvoteFind(id, userEmail)
    \/ \E id \in PostIds, userEmail \in UserEmails :
          Len(calls) < MaxCalls /\ PostDownvoteFind(id, userEmail)
    \/ \E c \in 1..Len(calls) : PostUpvoteUpdate(c)
    \/ \E c \in 1..Len(calls) : PostDownvoteUpdate(c)
    \/ \E id \in PostIds : DeletePost(id)

Spec == Init /\ [][Next]_vars

\* Vote requests one at a time: a request arrives only when every earlier
\* one has been answered, and no post is deleted.
SeqNext ==
    \/ \E id \in PostIds, userEmail \in UserEmails :
          /\ Len(calls) < MaxSeqCalls
          /\ NoCallInProgress
          /\ PostUpvoteFind(id, userEmail)
    \/ \E id \in PostIds, userEmail \in UserEmails :
          /\ Len(calls) < MaxSeqCalls
          /\ NoCallInProgress
          /\ PostDownvoteFind(id, userEmail)
    \/ \E c \in 1..Len(calls) : PostUpvoteUpdate(c)
    \/ \E c \in 1..Len(calls) : PostDownvoteUpdate(c)

SeqSpec == Init /\ [][SeqNext]_vars

-----------------------------------------------------------------------------
(* Runs with store failures and invalid input *)

\* A vote handler whose findOne rejects: the catch block answers.
PostVoteFindFails(route, id, userEmail) ==
    /\ ValidObjectId(id)
    /\ calls' = Append(calls, Catch(Awaiting(route, id, userEmail, Null)))
    /\ UNCHANGED <<postCollection, userCollection, commentCollection,
                   tagsCollection>>

\* A vote handler whose updateOne rejects: the store has applied nothing
\* and the catch block answers.
PostVoteUpdateFails(c) ==
    /\ calls[c].pc = "updateOne"
    /\ calls' = [calls EXCEPT ![c] = Catch(@)]
    /\ UNCHANGED <<postCollection, userCollection, commentCollection,
                   tagsCollection>>

FaultNext ==
    \/ \E id \in PostIds \cup {MalformedId},
          userEmail \in UserEmails \cup {MissingEmail} :
          Len(calls) < MaxFaultCalls /\ PostUpvoteFind(id, userEmail)
    \/ \E id \in PostIds \cup {MalformedId},
          userEmail \in UserEmails \cup {MissingEmail} :
          Len(calls) < MaxFaultCalls /\ PostDownvoteFind(id, userEmail)
    \/ \E route \in {"post-upvote", "post-downvote"}, id \in PostIds,
          userEmail \in UserEmails :
          Len(calls) < MaxFaultCalls /\ PostVoteFindFails(route, id, userEmail)
    \/ \E c \in 1..Len(calls) : PostUpvoteUpdate(c)
    \/ \E c \in 1..Len(calls) : PostDownvoteUpdate(c)
    \/ \E c \in 1..Len(calls) : PostVoteUpdateFails(c)

FaultSpec == Init /\ [][FaultNext]_vars

\* The store's reply to the updateOne of call c: the update applied, or
\* its rejection.
StoreReplies(c) ==
    /\ c \in 1..Len(calls)
    /\ \/ PostUpvoteUpdate(c)
       \/ PostDownvoteUpdate(c)
       \/ PostVoteUpdateFails(c)

\* The ids of the requests of LiveSpec: one post, and no ObjectId.
LiveIds == {"p1", MalformedId}

LiveNext ==
    \/ \E id \in LiveIds, userEmail \in UserEmails :
          Len(calls) < MaxLiveCalls /\ PostUpvoteFind(id, userEmail)
    \/ \E id \in LiveIds, userEmail \in UserEmails :
          Len(calls) < MaxLiveCalls /\ PostDownvoteFind(id, userEmail)
    \/ \E route \in {"post-upvote", "post-downvote"},
          id \in LiveIds \cap PostIds, userEmail \in UserEmails :
          Len(calls) < MaxLiveCalls /\ PostVoteFindFails(route, id, userEmail)
    \/ \E c \in 1..Len(calls) : PostUpvoteUpdate(c)
    \/ \E c \in 1..Len(calls) : PostDownvoteUpdate(c)
    \/ \E c \in 1..Len(calls) : PostVoteUpdateFails(c)
    \/ \E id \in LiveIds \cap PostIds : DeletePost(id)

\* The store replies to every operation it was sent.
LiveSpec ==
    /\ Init
    /\ [][LiveNext]_vars
    /\ \A c \in 1..MaxLiveCalls : WF_vars(StoreReplies(c))

-----------------------------------------------------------------------------
(* Tokens and the token guard *)

JwtSecret == "JWT_SECRET"

\* JSON.stringify of a payload value: an ObjectId becomes its hex string.
Json(value) ==
    IF value.bson = "ObjectId" THEN String(value.value) ELSE value

\* jwt.sign(payload, secret, {expiresIn: "5h"})
JwtSign(payload, secret) ==
    [payload |-> [userId |-> Json(payload.userId)], secret |-> secret,
     expired |-> FALSE]

\* jwt.verify(token, secret) throws on another signature and after expiry;
\* otherwise it returns the payload.
JwtThrows(token, secret) == token.secret # secret \/ token.expired

\* POST /jwt for a registered email: the cookie it sets.
Jwt(coll, email) ==
    JwtSign([userId |-> FindUserByEmail(coll, email)._id], JwtSecret)

\* No token cookie.
NoToken == Undefined

\* The cookies a request can carry: none, one that /jwt set, the same
\* after its five hours, or one signed with another secret.
Tokens ==
    {NoToken}
      \cup {Jwt(userCollection, email) : email \in Registered(userCollection)}
      \cup {[Jwt(userCollection, email) EXCEPT !.expired = TRUE] :
               email \in Registered(userCollection)}
      \cup {[Jwt(userCollection, email) EXCEPT !.secret = "forged"] :
               email \in Registered(userCollection)}

\* A guard that reads the payload without verifying the signature.
VerifyTokenTrustsPayload(token) ==
    IF token = NoToken
    THEN [next |-> FALSE, status |-> 401,
          message |-> "Access Denied! unauthorized user"]
    ELSE [next |-> TRUE, user |-> token.payload]

\* verifyToken: 401 without a token, 400 when jwt.verify throws, else
\* req.user = verified and next().
VerifyToken(token) ==
    IF token = NoToken
    THEN [next |-> FALSE, status |-> 401,
          message |-> "Access Denied! unauthorized user"]
    ELSE IF JwtThrows(token, JwtSecret)
    THEN [next |-> FALSE, status |-> 400, message |-> "Invalid Token"]
    ELSE [next |-> TRUE, user |-> token.payload]

\* A vote request with its cookie: verifyToken, then the handler up to its
\* await of updateOne.
VerifiedVoteFind(route, token, id, userEmail) ==
    /\ calls' = Append(calls,
           LET guard == VerifyToken(token)
           IN  IF guard.next
               THEN VoteFind(route, id, userEmail)
                       @@ [token |-> token, user |-> guard.user]
               ELSE Call(route, id, userEmail, Null, "done", guard.status,
                         guard.message)
                       @@ [token |-> token, user |-> Undefined])
    /\ UNCHANGED <<postCollection, userCollection, commentCollection,
                   tagsCollection>>

AuthNext ==
    \/ \E route \in {"post-upvote", "post-downvote"}, token \in Tokens,
          id \in PostIds, userEmail \in UserEmails :
          Len(calls) < MaxAuthCalls
             /\ VerifiedVoteFind(route, token, id, userEmail)
    \/ \E c \in 1..Len(calls) : PostUpvoteUpdate(c)
    \/ \E c \in 1..Len(calls) : PostDownvoteUpdate(c)

AuthSpec == Init /\ [][AuthNext]_vars

-----------------------------------------------------------------------------
(* The admin guard and PATCH /users/make-admin *)

\* The email of req.query: a registered user's, or nobody's.
QueryEmails == UserEmails \cup {"nobody@forum"}

\* What a throw in the async verifyAdmin leaves of the request: no answer
\* (the rejection is unhandled), or the 500 of a router that catches
\* rejected handlers.
Thrown == {[pc |-> "thrown", status |-> 0], [pc |-> "done", status |-> 500]}

AdminCall(token, user, admin, email, pc, status, body) ==
    [route |-> "make-admin", token |-> token, user |-> user, admin |-> admin,
     email |-> email, target |-> Null, pc |-> pc, status |-> status,
     body |-> body]

\* PATCH /users/make-admin through its guards: verifyToken, then
\* verifyAdmin's lookup by req.user.userId and its test of user.role.
MakeAdminGuards(token, email) ==
    /\ \E thrown \in Thrown :
          calls' = Append(calls,
              LET guard == VerifyToken(token)
                  user == FindUserById(userCollection, guard.user.userId)
              IN  IF ~guard.next
                  THEN AdminCall(token, Undefined, Null, email, "done",
                                 guard.status, [message |-> guard.message])
                  ELSE IF user = Null
                  THEN AdminCall(token, guard.user, Null, email, thrown.pc,
                                 thrown.status, Undefined)
                  ELSE IF user.role = "admin"
                  THEN AdminCall(token, guard.user, user, email, "findOne",
                                 0, Undefined)
                  ELSE AdminCall(token, guard.user, user, email, "done", 401,
                          [message |-> "Access Denied! unauthorized user"]))
    /\ UNCHANGED <<postCollection, userCollection, commentCollection,
                   tagsCollection>>

\* The handler's findOne by req.query.email and its 404 answer.
MakeAdminFind(c) ==
    /\ calls[c].route = "make-admin"
    /\ calls[c].pc = "findOne"
    /\ calls' = [calls EXCEPT ![c] =
          LET user == FindUserByEmail(userCollection, calls[c].email)
          IN  IF user = Null
              THEN [@ EXCEPT !.pc = "done", !.status = 404,
                             !.body = [message |-> "User not found"]]
              ELSE [@ EXCEPT !.pc = "updateOne", !.target = user]]
    /\ UNCHANGED <<postCollection, userCollection, commentCollection,
                   tagsCollection>>

\* The handler's updateOne: an admin becomes a user, anyone else an admin.
MakeAdminUpdate(c) ==
    /\ calls[c].route = "make-admin"
    /\ calls[c].pc = "updateOne"
    /\ userCollection' =
          SetRole(userCollection, calls[c].email,
                  IF calls[c].target.role = "admin" THEN "user" ELSE "admin")
    /\ calls' = [calls EXCEPT ![c] =
          [@ EXCEPT !.pc = "done", !.status = 200,
                    !.body = [success |-> TRUE]]]
    /\ UNCHANGED <<postCollection, commentCollection, tagsCollection>>

\* The users of a store: each with the _id the driver generated or with
\* the string _id its /new-user body carried, and with either role.
UserStores ==
    {[i \in DOMAIN InitialUsers |->
         UserDoc(IF i \in strings THEN String(i) ELSE ObjectId(i),
                 InitialUsers[i].email,
                 IF i \in admins THEN "admin" ELSE "user")] :
       strings \in SUBSET DOMAIN InitialUsers,
       admins \in SUBSET DOMAIN InitialUsers}

AdminInit ==
    /\ postCollection = InitialPosts
    /\ userCollection \in UserStores
    /\ commentCollection = {}
    /\ tagsCollection = <<>>
    /\ calls = <<>>

AdminNext ==
    \/ \E token \in Tokens, email \in QueryEmails :
          Len(calls) < MaxAdminCalls /\ MakeAdminGuards(token, email)
    \/ \E c \in 1..Len(calls) : MakeAdminFind(c)
    \/ \E c \in 1..Len(calls) : MakeAdminUpdate(c)

AdminSpec == AdminInit /\ [][AdminNext]_vars

-----------------------------------------------------------------------------
(* POST /new-user *)

\* The emails of the bodies of /new-user.
NewUserEmails == UserEmails \cup {"c@forum"}

\* userCollection.insertOne({...userData, role: "user"}): the driver
\* generates the _id.
InsertUser(coll, userData) ==
    Append(coll, UserDoc(ObjectId(Len(coll) + 1), userData.email, "user"))

\* POST /new-user up to its await of insertOne: findOne by the body's
\* email, and the answer when the user exists.
NewUserFind(userData) ==
    /\ calls' = Append(calls,
          LET user == FindUserByEmail(userCollection, userData.email)
          IN  [route |-> "new-user", userData |-> userData, user |-> user,
               pc |-> IF user = Null THEN "insertOne" ELSE "done",
               status |-> IF user = Null THEN 0 ELSE 200,
               body |-> IF user = Null THEN Undefined
                        ELSE [success |-> TRUE]])
    /\ UNCHANGED <<postCollection, userCollection, commentCollection,
                   tagsCollection>>

\* POST /new-user from its insertOne to res.send({success: true}).
NewUserInsert(c) ==
    /\ calls[c].route = "new-user"
    /\ calls[c].pc = "insertOne"
    /\ userCollection' = InsertUser(userCollection, calls[c].userData)
    /\ calls' = [calls EXCEPT ![c] =
          [@ EXCEPT !.pc = "done", !.status = 200,
                    !.body = [success |-> TRUE]]]
    /\ UNCHANGED <<postCollection, commentCollection, tagsCollection>>

\* The store with none, one or both of the initial users.
NewUserInit ==
    /\ postCollection = InitialPosts
    /\ userCollection \in
          {SubSeq(InitialUsers, 1, n) : n \in 0..Len(InitialUsers)}
    /\ commentCollection = {}
    /\ tagsCollection = <<>>
    /\ calls = <<>>

NewUserNext ==
    \/ \E email \in NewUserEmails :
          Len(calls) < MaxUserCalls /\ NewUserFind([email |-> email])
    \/ \E c \in 1..Len(calls) : NewUserInsert(c)

NewUserSpec == NewUserInit /\ [][NewUserNext]_vars

-----------------------------------------------------------------------------
(* Comments and the deletion of posts *)

\* postCollection.updateOne({_id}, {$inc: {commentsCount: n}})
IncCommentsCount(coll, id, n) ==
    IF id \in DOMAIN coll
    THEN [coll EXCEPT ![id].commentsCount = @ + n]
    ELSE coll

\* commentCollection.deleteMany({postId})
DeleteManyComments(coll, postId) == {doc \in coll : doc.postId # postId}

\* commentCollection.deleteOne({_id})
DeleteOneComment(coll, id) == {doc \in coll : doc._id # id}

\* The comments of a post.
CommentsOf(postId) == {doc \in commentCollection : doc.postId = postId}

\* A request at an await, and its answer {success: true}.
Request(route, id, postId, pc) ==
    [route |-> route, id |-> id, postId |-> postId, pc |-> pc,
     status |-> 0, body |-> Undefined]

Success(call) ==
    [call EXCEPT !.pc = "done", !.status = 200, !.body = [success |-> TRUE]]

\* POST /new-comment to its await of updateOne: the comment is inserted
\* with the _id the driver generates.
NewCommentInsertOne(postId) ==
    /\ commentCollection' =
          commentCollection \cup {[_id |-> Len(calls) + 1, postId |-> postId]}
    /\ calls' = Append(calls,
          Request("new-comment", Len(calls) + 1, postId, "updateOne"))
    /\ UNCHANGED <<postCollection, userCollection, tagsCollection>>

\* POST /new-comment from its $inc of commentsCount to its answer.
NewCommentUpdateOne(c) ==
    /\ calls[c].route = "new-comment"
    /\ calls[c].pc = "updateOne"
    /\ postCollection' = IncCommentsCount(postCollection, calls[c].postId, 1)
    /\ calls' = [calls EXCEPT ![c] = Success(@)]
    /\ UNCHANGED <<userCollection, commentCollection, tagsCollection>>

\* DELETE /delete-comment/:id to its await of updateOne: the comment with
\* this _id, if there is one, is deleted.
DeleteCommentDeleteOne(id, postId) ==
    /\ commentCollection' = DeleteOneComment(commentCollection, id)
    /\ calls' = Append(calls,
          Request("delete-comment", id, postId, "updateOne"))
    /\ UNCHANGED <<postCollection, userCollection, tagsCollection>>

\* DELETE /delete-comment/:id from its $inc of the body's post to its
\* answer.
DeleteCommentUpdateOne(c) ==
    /\ calls[c].route = "delete-comment"
    /\ calls[c].pc = "updateOne"
    /\ postCollection' = IncCommentsCount(postCollection, calls[c].postId, -1)
    /\ calls' = [calls EXCEPT ![c] = Success(@)]
    /\ UNCHANGED <<userCollection, commentCollection, tagsCollection>>

\* DELETE /delete-post/:id to its await of deleteMany.
DeletePostDeleteOne(id) ==
    /\ postCollection' =
          IF id \in DOMAIN postCollection
          THEN DeleteOne(postCollection, id)
          ELSE postCollection
    /\ calls' = Append(calls, Request("delete-post", id, id, "deleteMany"))
    /\ UNCHANGED <<userCollection, commentCollection, tagsCollection>>

\* DELETE /delete-post/:id from its deleteMany to its answer.
DeletePostDeleteMany(c) ==
    /\ calls[c].route = "delete-post"
    /\ calls[c].pc = "deleteMany"
    /\ commentCollection' =
          DeleteManyComments(commentCollection, calls[c].postId)
    /\ calls' = [calls EXCEPT ![c] = Success(@)]
    /\ UNCHANGED <<postCollection, userCollection, tagsCollection>>

CommentNext ==
    \/ \E postId \in PostIds :
          Len(calls) < MaxCommentCalls /\ NewCommentInsertOne(postId)
    \/ \E c \in 1..Len(calls) : NewCommentUpdateOne(c)
    \/ \E id \in 1..MaxCommentCalls, postId \in PostIds :
          Len(calls) < MaxCommentCalls /\ DeleteCommentDeleteOne(id, postId)
    \/ \E c \in 1..Len(calls) : DeleteCommentUpdateOne(c)
    \/ \E id \in PostIds :
          Len(calls) < MaxCommentCalls /\ DeletePostDeleteOne(id)
    \/ \E c \in 1..Len(calls) : DeletePostDeleteMany(c)

CommentSpec == Init /\ [][CommentNext]_vars

-----------------------------------------------------------------------------
(* POST /new-tag *)

TagNames == {"js", "go"}

\* tagsCollection.findOne({tagName})
FindTag(coll, tagName) ==
    IF \E i \in DOMAIN coll : coll[i].tagName = tagName
    THEN coll[Min({i \in DOMAIN coll : coll[i].tagName = tagName})]
    ELSE Null

\* res.send(body) on a request: the first send is the response; a send
\* after it throws, in the async handler.
ResSend(call, body) ==
    IF call.sent = <<>>
    THEN [call EXCEPT !.sent = <<body>>, !.status = 200, !.body = body,
                      !.pc = "done"]
    ELSE [call EXCEPT !.sent = Append(@, body), !.pc = "thrown"]

\* POST /new-tag, past both guards, to its await of insertOne: findOne by
\* tagName, and res.send({success: false}) when the tag exists.
NewTagFind(tagData) ==
    /\ calls' = Append(calls,
          LET call == [route |-> "new-tag", tagData |-> tagData,
                       pc |-> "insertOne", status |-> 0, body |-> Undefined,
                       sent |-> <<>>]
          IN  IF FindTag(tagsCollection, tagData.tagName) = Null
              THEN call
              ELSE ResSend(call, [success |-> FALSE]))
    /\ UNCHANGED <<postCollection, userCollection, commentCollection,
                   tagsCollection>>

\* POST /new-tag from its insertOne: res.send({success: true}) inside the
\* if, then the res.send({success: false}) that follows the if.
NewTagInsert(c) ==
    /\ calls[c].route = "new-tag"
    /\ calls[c].pc = "insertOne"
    /\ tagsCollection' = Append(tagsCollection, calls[c].tagData)
    /\ calls' = [calls EXCEPT ![c] =
          ResSend(ResSend(@, [success |-> TRUE]), [success |-> FALSE])]
    /\ UNCHANGED <<postCollection, userCollection, commentCollection>>

TagNext ==
    \/ \E tagName \in TagNames :
          Len(calls) < MaxTagCalls /\ NewTagFind([tagName |-> tagName])
    \/ \E c \in 1..Len(calls) : NewTagInsert(c)

TagSpec == Init /\ [][TagNext]_vars

-----------------------------------------------------------------------------
(* Posts by popularity *)

\* A stage that adds the counters instead of subtracting them.
AddFieldsSumsCounters(id, doc) ==
    [_id |-> id, votesCount |-> doc.upVotes + doc.downVotes] @@ doc

\* $addFields: {votesCount: {$subtract: ["$upVotes", "$downVotes"]}} on the
\* document with this _id.
AddFields(id, doc) ==
    [_id |-> id, votesCount |-> doc.upVotes - doc.downVotes] @@ doc

\* One document placed into a sequence that is in descending votesCount.
RECURSIVE SortInsert(_, _)
SortInsert(doc, sorted) ==
    IF sorted = <<>> THEN <<doc>>
    ELSE IF Head(sorted).votesCount < doc.votesCount
    THEN <<doc>> \o sorted
    ELSE <<Head(sorted)>> \o SortInsert(doc, Tail(sorted))

\* $sort: {votesCount: -1}
RECURSIVE SortDescending(_)
SortDescending(docs) ==
    IF docs = <<>> THEN <<>>
    ELSE SortInsert(Head(docs), SortDescending(Tail(docs)))

\* The orders in which a scan can deliver the documents of a collection.
ScanOrders(coll) ==
    {scan \in [1..Cardinality(DOMAIN coll) -> DOMAIN coll] :
        \A i, j \in DOMAIN scan : i # j => scan[i] # scan[j]}

\* aggregate([{$addFields}, {$sort}]).toArray() over a scan of the posts.
Aggregate(coll, scan) ==
    SortDescending([i \in DOMAIN scan |-> AddFields(scan[i], coll[scan[i]])])

\* GET /all-posts/sort-by-popularity: res.send(result).
SortByPopularity ==
    /\ \E scan \in ScanOrders(postCollection) :
          calls' = Append(calls,
              [route |-> "sort-by-popularity", pc |-> "done", status |-> 200,
               body |-> Aggregate(postCollection, scan)])
    /\ UNCHANGED <<postCollection, userCollection, commentCollection,
                   tagsCollection>>

ReadNext ==
    \/ \E id \in PostIds, userEmail \in UserEmails :
          Len(calls) < MaxReadCalls /\ PostUpvoteFind(id, userEmail)
    \/ \E id \in PostIds, userEmail \in UserEmails :
          Len(calls) < MaxReadCalls /\ PostDownvoteFind(id, userEmail)
    \/ \E c \in 1..Len(calls) : PostUpvoteUpdate(c)
    \/ \E c \in 1..Len(calls) : PostDownvoteUpdate(c)
    \/ \E id \in PostIds : DeletePost(id)
    \/ Len(calls) < MaxReadCalls /\ SortByPopularity

ReadSpec == Init /\ [][ReadNext]_vars

-----------------------------------------------------------------------------
(* GET /all-posts and the visibility of posts *)

\* The values of req.query.page and req.query.limit after parseInt; 0
\* stands for every falsy one (absent, not a number, "0").
QueryNumbers == {-1, 0, 1, 2}

\* The values of req.query.searchTerm; "" stands for an absent one.
SearchTerms == {"", "js", "go", "css"}

Visibilities == {"public", "private"}

\* parseInt(value) || otherwise
ParseIntOr(value, otherwise) == IF value = 0 THEN otherwise ELSE value

\* {tags: {$regex: tag, $options: "i"}} on an array of tags: one of them
\* matches.  No term of SearchTerms is part of another tag.
TagsMatch(tags, tag) == \E i \in DOMAIN tags : tags[i] = tag

\* A $match stage that does not look at visibility.
MatchAnyVisibility(doc, tag) == tag # "" => TagsMatch(doc.tags, tag)

\* $match: {...(tag && {tags: {$regex: tag}}), visibility: {$ne: "private"}}
Match(doc, tag) ==
    /\ tag # "" => TagsMatch(doc.tags, tag)
    /\ doc.visibility # "private"

\* One document placed into a sequence that is in descending createdAt.
RECURSIVE NewestInsert(_, _)
NewestInsert(doc, sorted) ==
    IF sorted = <<>> THEN <<doc>>
    ELSE IF Head(sorted).createdAt < doc.createdAt
    THEN <<doc>> \o sorted
    ELSE <<Head(sorted)>> \o NewestInsert(doc, Tail(sorted))

\* $sort: {createdAt: -1}
RECURSIVE NewestFirst(_)
NewestFirst(docs) ==
    IF docs = <<>> THEN <<>>
    ELSE NewestInsert(Head(docs), NewestFirst(Tail(docs)))

\* $skip: skip, then $limit: limit
SkipLimit(docs, skip, limit) ==
    SubSeq(docs, skip + 1,
           IF skip + limit < Len(docs) THEN skip + limit ELSE Len(docs))

\* The pipeline of /all-posts over a scan of the posts.
AllPostsPipeline(coll, scan, tag, skip, limit) ==
    SkipLimit(
        NewestFirst(
            SelectSeq([i \in DOMAIN scan |-> AddFields(scan[i], coll[scan[i]])],
                      LAMBDA doc : Match(doc, tag))),
        skip, limit)

\* GET /all-posts: res.send(result); a negative $skip or $limit makes
\* aggregate reject, and the handler has no catch.
AllPosts(queryPage, queryLimit, searchTerm) ==
    /\ \E scan \in ScanOrders(postCollection) :
          LET page == ParseIntOr(queryPage, 1)
              limit == ParseIntOr(queryLimit, 5)
              skip == (page - 1) * limit
              call == [route |-> "all-posts", page |-> page, limit |-> limit,
                       searchTerm |-> searchTerm]
          IN  calls' = Append(calls,
                 IF skip < 0 \/ limit < 0
                 THEN call @@ [pc |-> "thrown", status |-> 0,
                               body |-> Undefined]
                 ELSE call @@ [pc |-> "done", status |-> 200,
                               body |-> AllPostsPipeline(postCollection, scan,
                                           searchTerm, skip, limit)])
    /\ UNCHANGED <<postCollection, userCollection, commentCollection,
                   tagsCollection>>

\* postCollection.updateOne({_id}, {$set: {visibility}})
SetVisibility(coll, id, visibility) ==
    IF id \in DOMAIN coll
    THEN [coll EXCEPT ![id].visibility = visibility]
    ELSE coll

\* PATCH /update-post-visibility/:postId: updateOne, res.send.
UpdatePostVisibility(postId, visibility) ==
    /\ postCollection' = SetVisibility(postCollection, postId, visibility)
    /\ calls' = Append(calls,
          Success(Request("update-post-visibility", postId, postId, "updateOne"))
             @@ [visibility |-> visibility])
    /\ UNCHANGED <<userCollection, commentCollection, tagsCollection>>

ListNext ==
    \/ \E queryPage \in QueryNumbers, queryLimit \in QueryNumbers,
          searchTerm \in SearchTerms :
          Len(calls) < MaxListCalls
             /\ AllPosts(queryPage, queryLimit, searchTerm)
    \/ \E postId \in PostIds, visibility \in Visibilities :
          Len(calls) < MaxListCalls
             /\ UpdatePostVisibility(postId, visibility)

ListSpec == Init /\ [][ListNext]_vars

-----------------------------------------------------------------------------
(* The vote ledger as the specification describes it *)

\* The vote a route requests.
RequestedType(route) == IF route = "post-upvote" THEN "up" ELSE "down"

\* The vote records of one user in a post, in array order.
UserVotes(doc, userEmail) ==
    SelectSeq(doc.votes, LAMBDA v : v.userEmail = userEmail)

\* The user's vote state: none, up or down.
VoteState(doc, userEmail) ==
    IF UserVotes(doc, userEmail) = <<>>
    THEN "none"
    ELSE UserVotes(doc, userEmail)[1].voteType

\* The number of vote records of one type.
CountVotes(votes, voteType) ==
    Cardinality({i \in 1..Len(votes) : votes[i].voteType = voteType})

\* The six rows of the transition table: (current, requested) -> new state
\* and the deltas of upVotes and downVotes.
Row(new, up, down) == [new |-> new, up |-> up, down |-> down]

Table(current, requested) ==
    CASE current = "none" /\ requested = "up" -> Row("up", 1, 0)
      [] current = "none" /\ requested = "down" -> Row("down", 0, 1)
      [] current = "up" /\ requested = "up" -> Row("none", -1, 0)
      [] current = "up" /\ requested = "down" -> Row("down", -1, 1)
      [] current = "down" /\ requested = "down" -> Row("none", 0, -1)
      [] current = "down" /\ requested = "up" -> Row("up", 1, -1)

\* The records a user holds in state S.
RecordsOf(userEmail, state) ==
    IF state = "none"
    THEN <<>>
    ELSE <<[userEmail |-> userEmail, voteType |-> state]>>

\* doc2 is doc after the table's transition for the user and the request,
\* with nothing else changed.
TableStep(doc, doc2, userEmail, requested) ==
    LET row == Table(VoteState(doc, userEmail), requested)
    IN  /\ Len(UserVotes(doc, userEmail)) <= 1
        /\ UserVotes(doc2, userEmail) = RecordsOf(userEmail, row.new)
        /\ doc2.upVotes = doc.upVotes + row.up
        /\ doc2.downVotes = doc.downVotes + row.down
        /\ \A other \in UserEmails \ {userEmail} :
              UserVotes(doc2, other) = UserVotes(doc, other)

\* Call c receives its response in this step.
Answered(c) ==
    /\ c <= Len(calls)
    /\ calls[c].pc = "updateOne"
    /\ calls'[c].pc = "done"

-----------------------------------------------------------------------------
(* Runs that start from posts already voted on *)

VoteRecords == [userEmail : UserEmails, voteType : VoteTypes]

\* The votes arrays with at most one record per user, in either order.
LedgerVotes ==
    {<<>>} \cup
    {votes \in UNION {[1..n -> VoteRecords] : n \in 1..Cardinality(UserEmails)} :
        \A i, j \in 1..Len(votes) :
           i # j => votes[i].userEmail # votes[j].userEmail}

\* The posts that vote calls run one at a time leave behind.
LedgerDocs ==
    {PostDoc(votes, CountVotes(votes, "up"), CountVotes(votes, "down")) :
        votes \in LedgerVotes}

VotedInit ==
    /\ postCollection \in
          {[id \in PostIds |-> doc @@ Payload(id)] : doc \in LedgerDocs}
    /\ userCollection = InitialUsers
    /\ commentCollection = {}
    /\ tagsCollection = <<>>
    /\ calls = <<>>

VotedNext ==
    \/ \E id \in PostIds, userEmail \in UserEmails :
          Len(calls) < MaxPairCalls /\ PostUpvoteFind(id, userEmail)
    \/ \E id \in PostIds, userEmail \in UserEmails :
          Len(calls) < MaxPairCalls /\ PostDownvoteFind(id, userEmail)
    \/ \E c \in 1..Len(calls) : PostUpvoteUpdate(c)
    \/ \E c \in 1..Len(calls) : PostDownvoteUpdate(c)
    \/ \E id \in PostIds : DeletePost(id)

VotedSpec == VotedInit /\ [][VotedNext]_vars

-----------------------------------------------------------------------------
(* C1 *)

\* C1: with one request at a time, every vote call on an existing post
\* applies exactly the row of the transition table for the user's current
\* vote and the requested vote: the user's record, both counters, and
\* nothing else of the post or of any other post.
C1_TransitionTable ==
    [][\A c \in 1..Len(calls) :
          Answered(c) =>
             /\ calls'[c].status = 200
             /\ calls[c].id \in DOMAIN postCollection
             /\ TableStep(postCollection[calls[c].id],
                          postCollection'[calls[c].id],
                          calls[c].userEmail, RequestedType(calls[c].route))
             /\ \A id \in PostIds \ {calls[c].id} :
                   postCollection'[id] = postCollection[id]]_vars

\* A user has switched a downvote to an upvote.
C1_Witness ==
    \E c \in 1..Len(calls) :
       /\ calls[c].message = "Vote switched to upvote"
       /\ VoteState(calls[c].post, calls[c].userEmail) = "down"
       /\ c = Len(calls)
       /\ VoteState(postCollection[calls[c].id], calls[c].userEmail) = "up"

-----------------------------------------------------------------------------
(* C7 *)

\* C7: with one request at a time, when a user without a vote on a post
\* sends the same vote twice in a row, after the second call the user has
\* no vote record and both counters are what they were before the first.
C7_ToggleIdempotent ==
    \A c \in 1..(Len(calls) - 1) :
       LET first == calls[c]
           second == calls[c + 1]
       IN  ( /\ c + 1 = Len(calls)
             /\ second.pc = "done"
             /\ first.route = second.route
             /\ first.id = second.id
             /\ first.userEmail = second.userEmail
             /\ first.post # Null
             /\ VoteState(first.post, first.userEmail) = "none" )
           => /\ UserVotes(postCollection[first.id], first.userEmail) = <<>>
              /\ postCollection[first.id].upVotes = first.post.upVotes
              /\ postCollection[first.id].downVotes = first.post.downVotes
              /\ postCollection[first.id].votes = first.post.votes

\* A user without a vote has sent two downvotes in a row while another
\* user's vote stands on the post.
C7_Witness ==
    /\ Len(calls) >= 3
    /\ calls[Len(calls)].pc = "done"
    /\ calls[Len(calls)].route = "post-downvote"
    /\ calls[Len(calls) - 1].route = "post-downvote"
    /\ calls[Len(calls)].id = calls[Len(calls) - 1].id
    /\ calls[Len(calls)].userEmail = calls[Len(calls) - 1].userEmail
    /\ calls[Len(calls) - 1].post.upVotes = 1
    /\ VoteState(calls[Len(calls) - 1].post, calls[Len(calls)].userEmail) = "none"

-----------------------------------------------------------------------------
(* C8 *)

\* The scenario's calls, all on one post: A up, A up, A down, B up, B down.
Scenario ==
    << <<"post-upvote", "a@forum">>, <<"post-upvote", "a@forum">>,
       <<"post-downvote", "a@forum">>, <<"post-upvote", "b@forum">>,
       <<"post-downvote", "b@forum">> >>

\* The calls so far are the first n calls of the scenario on post id, all
\* answered.
ScenarioRun(id, n) ==
    /\ Len(calls) = n
    /\ \A c \in 1..n :
          /\ calls[c].route = Scenario[c][1]
          /\ calls[c].userEmail = Scenario[c][2]
          /\ calls[c].id = id
          /\ calls[c].pc = "done"

\* C8 as claimed: from a post with no votes and counters 0, after A up,
\* A up, A down, B up the counters are 1 and 1, and after B down they are
\* 0 and 1 and the last response is "Vote switched to downvote".
C8_ScenarioAsClaimed ==
    \A id \in PostIds :
       /\ ScenarioRun(id, 4) =>
             /\ postCollection[id].upVotes = 1
             /\ postCollection[id].downVotes = 1
       /\ ScenarioRun(id, 5) =>
             /\ postCollection[id].upVotes = 0
             /\ postCollection[id].downVotes = 1
             /\ calls[5].status = 200
             /\ calls[5].message = "Vote switched to downvote"

\* C8 amended: from a post with no votes and counters 0, after A up, A up,
\* A down, B up the counters are 1 and 1, and after B down they are 0 and
\* 2 (A's downvote and B's switched vote), the votes are A down and B
\* down, and the last response is "Vote switched to downvote".
C8_Scenario ==
    \A id \in PostIds :
       /\ ScenarioRun(id, 4) =>
             /\ postCollection[id].upVotes = 1
             /\ postCollection[id].downVotes = 1
       /\ ScenarioRun(id, 5) =>
             /\ postCollection[id].upVotes = 0
             /\ postCollection[id].downVotes = 2
             /\ VoteState(postCollection[id], "a@forum") = "down"
             /\ VoteState(postCollection[id], "b@forum") = "down"
             /\ calls[5].status = 200
             /\ calls[5].message = "Vote switched to downvote"

\* The scenario has run to its end.
C8_Witness == \E id \in PostIds : ScenarioRun(id, 5)

-----------------------------------------------------------------------------
(* C2, C3, C4 *)

\* C2: whenever no vote call is in progress, every post's upVotes is the
\* number of its up records and its downVotes the number of its down
\* records, whether or not the calls overlapped.
C2_CounterLedger ==
    NoCallInProgress =>
       \A id \in DOMAIN postCollection :
          /\ postCollection[id].upVotes = CountVotes(postCollection[id].votes, "up")
          /\ postCollection[id].downVotes = CountVotes(postCollection[id].votes, "down")

\* C3: a post's votes never hold more than one record of one user.
C3_OneRecordPerUser ==
    \A id \in DOMAIN postCollection :
       \A userEmail \in UserEmails :
          Len(UserVotes(postCollection[id], userEmail)) <= 1

\* C4: upVotes and downVotes are never negative.
C4_NonNegative ==
    \A id \in DOMAIN postCollection :
       /\ postCollection[id].upVotes >= 0
       /\ postCollection[id].downVotes >= 0

-----------------------------------------------------------------------------
(* C5 *)

\* castVote as one indivisible step on the collection: the read, the
\* branch and the write of one call with nothing in between.
AtomicCastVote(coll, call) ==
    IF FindOne(coll, call.id) = Null
    THEN coll
    ELSE IF call.route = "post-upvote"
         THEN UpvoteUpdateOne(coll, call.id, call.userEmail,
                              UpvoteBranch(FindOne(coll, call.id), call.userEmail))
         ELSE DownvoteUpdateOne(coll, call.id, call.userEmail,
                                DownvoteBranch(FindOne(coll, call.id), call.userEmail))

\* The collections that running the calls of S one after the other, in
\* any order, produces from coll.
RECURSIVE SerialOutcomes(_, _)
SerialOutcomes(S, coll) ==
    IF S = {}
    THEN {coll}
    ELSE UNION {SerialOutcomes(S \ {c}, AtomicCastVote(coll, calls[c])) : c \in S}

\* C5: once every call has been answered (and no post was deleted), the
\* votes and counters of the posts are those of running the same calls one
\* after the other in some order.
C5_Serializable ==
    (NoCallInProgress /\ DOMAIN postCollection = PostIds) =>
       postCollection \in SerialOutcomes(1..Len(calls), InitialPosts)

-----------------------------------------------------------------------------
(* C6 *)

\* Calls c1 and c2 are the only vote calls on their post, both answered,
\* by two distinct users, and they overlapped: each read the post before
\* the other wrote it (both hold the same post as read; a call that read
\* after the other's write would hold a different one).  The post still
\* exists.
OverlappingPair(c1, c2) ==
    /\ c1 < c2
    /\ calls[c1].id = calls[c2].id
    /\ calls[c1].userEmail # calls[c2].userEmail
    /\ calls[c1].pc = "done"
    /\ calls[c2].pc = "done"
    /\ calls[c1].post # Null
    /\ calls[c1].post = calls[c2].post
    /\ calls[c1].id \in DOMAIN postCollection
    /\ \A c \in 1..Len(calls) \ {c1, c2} : calls[c].id # calls[c1].id

\* C6: two overlapping vote calls by two distinct users on one existing
\* post both succeed; the post's counters are the counters before the calls
\* plus the table deltas of both, and each user's record is the one the
\* table prescribes for that user's call.
C6_DistinctUsers ==
    \A c1, c2 \in 1..Len(calls) :
       OverlappingPair(c1, c2) =>
          LET before == calls[c1].post
              after == postCollection[calls[c1].id]
              row1 == Table(VoteState(before, calls[c1].userEmail),
                            RequestedType(calls[c1].route))
              row2 == Table(VoteState(before, calls[c2].userEmail),
                            RequestedType(calls[c2].route))
          IN  /\ calls[c1].status = 200
              /\ calls[c2].status = 200
              /\ after.upVotes = before.upVotes + row1.up + row2.up
              /\ after.downVotes = before.downVotes + row1.down + row2.down
              /\ UserVotes(after, calls[c1].userEmail) =
                    RecordsOf(calls[c1].userEmail, row1.new)
              /\ UserVotes(after, calls[c2].userEmail) =
                    RecordsOf(calls[c2].userEmail, row2.new)

\* Two users' calls overlapped on a post where both had voted: one
\* switched its vote while the other removed its own.
C6_Witness ==
    \E c1, c2 \in 1..Len(calls) :
       /\ OverlappingPair(c1, c2)
       /\ calls[c1].message = "Vote switched to downvote"
       /\ calls[c2].message = "Upvote removed"

-----------------------------------------------------------------------------
(* C9 *)

\* The message m of a call by userEmail describes the step from doc to doc2.
Describes(m, doc, doc2, userEmail) ==
    /\ m \in {"Upvote added", "Downvote added"} =>
          Len(UserVotes(doc2, userEmail)) = Len(UserVotes(doc, userEmail)) + 1
    /\ m \in {"Upvote removed", "Downvote removed"} =>
          /\ UserVotes(doc, userEmail) # <<>>
          /\ UserVotes(doc2, userEmail) = <<>>
    /\ m = "Vote switched to upvote" =>
          \E i \in 1..Len(doc.votes) :
             /\ doc.votes[i] = [userEmail |-> userEmail, voteType |-> "down"]
             /\ Len(doc2.votes) = Len(doc.votes)
             /\ doc2.votes[i] = [userEmail |-> userEmail, voteType |-> "up"]
    /\ m = "Vote switched to downvote" =>
          \E i \in 1..Len(doc.votes) :
             /\ doc.votes[i] = [userEmail |-> userEmail, voteType |-> "up"]
             /\ Len(doc2.votes) = Len(doc.votes)
             /\ doc2.votes[i] = [userEmail |-> userEmail, voteType |-> "down"]

\* C9: the message of every successful vote call describes what the call
\* did to the post: added only if it inserted a record of the user,
\* removed only if it removed the user's record, switched only if it
\* changed the type of the user's record, whatever ran between the call's
\* read and its write.
C9_MessageDescribesTransition ==
    [][\A c \in 1..Len(calls) :
          (Answered(c) /\ calls'[c].status = 200) =>
             /\ calls[c].id \in DOMAIN postCollection
             /\ Describes(calls'[c].message,
                          postCollection[calls[c].id],
                          postCollection'[calls[c].id],
                          calls[c].userEmail)]_vars

-----------------------------------------------------------------------------
(* C10 *)

\* C10: a vote call that reads a postId with no post is answered 404 "Post
\* not found" at once and changes nothing: neither at its read nor later
\* is any post created or any post's votes or counters changed by it.
C10_NotFound ==
    [][/\ (Len(calls') = Len(calls) + 1
             /\ calls'[Len(calls')].id \notin DOMAIN postCollection) =>
          /\ calls'[Len(calls')].pc = "done"
          /\ calls'[Len(calls')].status = 404
          /\ calls'[Len(calls')].message = "Post not found"
          /\ postCollection' = postCollection
       /\ \A c \in 1..Len(calls) :
             calls[c].status = 404 => calls'[c] = calls[c]]_vars

\* A vote call was answered 404 while another post stands with a vote.
C10_Witness ==
    \E c \in 1..Len(calls) :
       /\ calls[c].status = 404
       /\ calls[c].message = "Post not found"
       /\ calls[c].id \notin DOMAIN postCollection
       /\ \E id \in DOMAIN postCollection : postCollection[id].votes # <<>>

-----------------------------------------------------------------------------
(* C16 *)

\* C16: the write of a vote call pairs a vote-record change with a counter
\* adjustment: no answered call on an existing post leaves the votes array
\* changed with both counters as they were, or a counter changed with the
\* votes array as it was.
C16_PairedWrite ==
    [][\A c \in 1..Len(calls) :
          (Answered(c) /\ calls'[c].status = 200
             /\ calls[c].id \in DOMAIN postCollection) =>
             LET doc == postCollection[calls[c].id]
                 doc2 == postCollection'[calls[c].id]
             IN  (doc2.votes # doc.votes) <=>
                    (doc2.upVotes # doc.upVotes \/ doc2.downVotes # doc.downVotes)]_vars

-----------------------------------------------------------------------------
(* C17 *)

\* The fields of a post the vote handlers write.
VoteFields == {"votes", "upVotes", "downVotes"}

\* C17: a step of a vote call by a user on a post leaves unchanged every
\* other user's records on that post, every other post, and every field
\* of the post other than votes, upVotes and downVotes; the read of a call
\* changes nothing at all.
C17_Frame ==
    [][/\ Len(calls') > Len(calls) => postCollection' = postCollection
       /\ \A c \in 1..Len(calls) :
             Answered(c) =>
                /\ DOMAIN postCollection' = DOMAIN postCollection
                /\ \A id \in DOMAIN postCollection \ {calls[c].id} :
                      postCollection'[id] = postCollection[id]
                /\ calls[c].id \in DOMAIN postCollection =>
                      LET doc == postCollection[calls[c].id]
                          doc2 == postCollection'[calls[c].id]
                      IN  /\ DOMAIN doc2 = DOMAIN doc
                          /\ \A f \in DOMAIN doc \ VoteFields : doc2[f] = doc[f]
                          /\ \A other \in UserEmails \ {calls[c].userEmail} :
                                UserVotes(doc2, other) = UserVotes(doc, other)]_vars

\* A user's call was answered on a post where the other user's vote
\* stands, while the other post holds votes too.
C17_Witness ==
    \E c \in 1..Len(calls) :
       /\ calls[c].status = 200
       /\ calls[c].id \in DOMAIN postCollection
       /\ \E other \in UserEmails \ {calls[c].userEmail} :
             UserVotes(postCollection[calls[c].id], other) # <<>>
       /\ \E id \in DOMAIN postCollection \ {calls[c].id} :
             postCollection[id].votes # <<>>

-----------------------------------------------------------------------------
(* C20 *)

\* votes2 is votes with exactly one record inserted, or exactly one record
\* changed, or exactly one record removed.
OneRecordChanged(votes, votes2) ==
    \/ /\ Len(votes2) = Len(votes) + 1
       /\ SubSeq(votes2, 1, Len(votes)) = votes
    \/ /\ Len(votes2) = Len(votes)
       /\ Cardinality({i \in 1..Len(votes) : votes2[i] # votes[i]}) = 1
    \/ /\ Len(votes2) = Len(votes) - 1
       /\ \E i \in 1..Len(votes) :
             votes2 = SubSeq(votes, 1, i - 1) \o SubSeq(votes, i + 1, Len(votes))

\* C20: every vote call answered with a success message on an existing
\* post has inserted, changed or removed exactly one vote record, whatever
\* other vote calls ran between its read and its write.
C20_ExactlyOneRecord ==
    [][\A c \in 1..Len(calls) :
          (Answered(c) /\ calls'[c].status = 200
             /\ calls[c].id \in DOMAIN postCollection) =>
             OneRecordChanged(postCollection[calls[c].id].votes,
                              postCollection'[calls[c].id].votes)]_vars

-----------------------------------------------------------------------------
(* C19 *)

\* C19: the object sent by every successful vote call holds the message
\* and the post's upVotes and downVotes as they are after the call's write.
C19_ResultHasCounters ==
    [][\A c \in 1..Len(calls) :
          (Answered(c) /\ calls'[c].status = 200
             /\ calls[c].id \in DOMAIN postCollection) =>
             /\ {"message", "upVotes", "downVotes"} \subseteq DOMAIN calls'[c].body
             /\ calls'[c].body.upVotes = postCollection'[calls[c].id].upVotes
             /\ calls'[c].body.downVotes = postCollection'[calls[c].id].downVotes]_vars

-----------------------------------------------------------------------------
(* C11 *)

\* Call c is answered in this step, at its read or at its write.
AnsweredNow(c) ==
    /\ c <= Len(calls')
    /\ calls'[c].pc = "done"
    /\ c <= Len(calls) => calls[c].pc # "done"

\* C11: a vote call that ends in an error response (neither 200 nor 404)
\* is answered with a 5xx status; the step that answers it and the call's
\* read leave every post as it was, and an answered call takes no further
\* step (no retry).
C11_AllOrNothing ==
    [][/\ \A c \in 1..Len(calls') :
             (AnsweredNow(c) /\ calls'[c].status \notin {200, 404}) =>
                /\ calls'[c].status \in 500..599
                /\ postCollection' = postCollection
       /\ Len(calls') > Len(calls) => postCollection' = postCollection
       /\ \A c \in 1..Len(calls) :
             calls[c].pc = "done" => calls'[c] = calls[c]]_vars

\* One call failed at its write after another call's vote was recorded,
\* and one call failed at its read.
C11_Witness ==
    \E c1, c2 \in 1..Len(calls) :
       /\ calls[c1].status = 500
       /\ calls[c1].post # Null
       /\ calls[c2].status = 200
       /\ calls[c2].id = calls[c1].id
       /\ postCollection[calls[c1].id].votes # <<>>

-----------------------------------------------------------------------------
(* C12 *)

\* The request of call c has a malformed postId or no userEmail.
InvalidInput(call) ==
    call.id = MalformedId \/ call.userEmail = MissingEmail

\* C12: a vote request with a malformed postId or without a userEmail is
\* answered with a 4xx status at once, and no step of it changes a post.
C12_InvalidInput ==
    [][/\ (Len(calls') = Len(calls) + 1 /\ InvalidInput(calls'[Len(calls')])) =>
             /\ calls'[Len(calls')].pc = "done"
             /\ calls'[Len(calls')].status \in 400..499
             /\ postCollection' = postCollection
       /\ \A c \in 1..Len(calls) :
             (InvalidInput(calls[c]) /\ calls'[c] # calls[c]) =>
                postCollection' = postCollection]_vars

-----------------------------------------------------------------------------
(* C14 *)

\* C14: a request without a token cookie is answered 401 and one whose
\* token fails verification is answered 400; in both cases the handler
\* does not run: the request reads no post, no collection changes, and the
\* request takes no further step.
C14_TokenGuard ==
    [][/\ Len(calls') = Len(calls) + 1 =>
             LET call == calls'[Len(calls')]
                 rejected == /\ call.pc = "done"
                             /\ call.post = Null
                             /\ postCollection' = postCollection
                             /\ userCollection' = userCollection
             IN  /\ call.token = NoToken => call.status = 401 /\ rejected
                 /\ (call.token # NoToken /\ JwtThrows(call.token, JwtSecret))
                       => call.status = 400 /\ rejected
       /\ \A c \in 1..Len(calls) :
             (calls[c].token = NoToken \/ JwtThrows(calls[c].token, JwtSecret))
                => calls'[c] = calls[c]]_vars

\* One request was turned away for its missing cookie and one for a token
\* signed with another secret.
C14_Witness ==
    \E c1, c2 \in 1..Len(calls) :
       /\ calls[c1].token = NoToken
       /\ calls[c1].status = 401
       /\ calls[c2].token # NoToken
       /\ calls[c2].token.secret # JwtSecret
       /\ calls[c2].status = 400

-----------------------------------------------------------------------------
(* C13 *)

\* The emails of the users that req.user identifies.
Principal(user) ==
    {userCollection[i].email :
        i \in {j \in DOMAIN userCollection :
                 Json(userCollection[j]._id) = user.userId}}

\* C13: the step that answers a vote request changes no vote record of a
\* user other than the one its token identifies.
C13_VoterIsPrincipal ==
    [][\A c \in 1..Len(calls) :
          Answered(c) =>
             \A id \in DOMAIN postCollection \cap DOMAIN postCollection',
                userEmail \in UserEmails \ Principal(calls[c].user) :
                UserVotes(postCollection'[id], userEmail)
                   = UserVotes(postCollection[id], userEmail)]_vars

-----------------------------------------------------------------------------
(* C18 *)

\* C18: the answer of GET /all-posts/sort-by-popularity lists every post
\* once, each with votesCount = upVotes - downVotes of the post as stored
\* when the request is served, in non-increasing votesCount; and no step
\* leaves a votesCount field in a stored post.
C18_SortByPopularity ==
    [][/\ (Len(calls') = Len(calls) + 1
             /\ calls'[Len(calls')].route = "sort-by-popularity") =>
             LET result == calls'[Len(calls')].body
             IN  /\ Len(result) = Cardinality(DOMAIN postCollection)
                 /\ {result[i]._id : i \in DOMAIN result} = DOMAIN postCollection
                 /\ \A i \in DOMAIN result :
                       result[i].votesCount
                          = postCollection[result[i]._id].upVotes
                               - postCollection[result[i]._id].downVotes
                 /\ \A i, j \in DOMAIN result :
                       i < j => result[i].votesCount >= result[j].votesCount
       /\ \A id \in DOMAIN postCollection' :
             "votesCount" \notin DOMAIN postCollection'[id]]_vars

\* An answer that lists a post with a higher score before one with a
\* lower, negative score.
C18_Witness ==
    \E c \in 1..Len(calls) :
       /\ calls[c].route = "sort-by-popularity"
       /\ Len(calls[c].body) = 2
       /\ calls[c].body[1]._id = "p2"
       /\ calls[c].body[1].votesCount > calls[c].body[2].votesCount
       /\ calls[c].body[2].votesCount < 0

-----------------------------------------------------------------------------
(* C15 *)

\* C15: a token-verified request to PATCH /users/make-admin whose
\* principal's user document does not have role "admin" at the lookup is
\* answered 401 with no collection changed, and a step of the handler is
\* taken only by a request whose looked-up user had role "admin".
C15_AdminGuard ==
    [][/\ (Len(calls') = Len(calls) + 1
             /\ VerifyToken(calls'[Len(calls')].token).next) =>
             LET call == calls'[Len(calls')]
             IN  (\A email \in Principal(call.user) :
                     FindUserByEmail(userCollection, email).role # "admin") =>
                    /\ call.pc = "done"
                    /\ call.status = 401
                    /\ userCollection' = userCollection
                    /\ postCollection' = postCollection
       /\ \A c \in 1..Len(calls) :
             calls'[c] # calls[c] =>
                /\ calls[c].admin # Null
                /\ calls[c].admin.role = "admin"]_vars

-----------------------------------------------------------------------------
(* C21 *)

TransitionMessages ==
    {"Upvote removed", "Vote switched to upvote", "Upvote added",
     "Downvote removed", "Vote switched to downvote", "Downvote added"}

\* The answer of call c is one the handlers document.
DocumentedResponse(call) ==
    \/ call.status = 200 /\ call.message \in TransitionMessages
    \/ call.status = 404 /\ call.message = "Post not found"
    \/ call.status = 500

\* C21: every vote request is eventually answered; its answer is a 200
\* with one of the six transition messages, the 404 "Post not found" or a
\* 500; and an answered request is never answered again.
C21_OneResponse ==
    /\ \A c \in 1..MaxLiveCalls :
          (c <= Len(calls)) ~> (c <= Len(calls) /\ calls[c].pc = "done")
    /\ [](\A c \in 1..Len(calls) :
             calls[c].pc = "done" => DocumentedResponse(calls[c]))
    /\ [][\A c \in 1..Len(calls) :
             calls[c].pc = "done" => calls'[c] = calls[c]]_vars

\* Requests answered 500 after waiting for the store and 404.
C21_Witness ==
    \E c1, c2 \in 1..Len(calls) :
       /\ calls[c1].status = 500
       /\ calls[c1].post # Null
       /\ calls[c2].status = 404

-----------------------------------------------------------------------------
(* C22 *)

\* C22: the users collection holds at most one document per email, and
\* the step of a /new-user call that finds or meets a user with its email
\* changes no user document.
C22_OneUserPerEmail ==
    /\ [](\A email \in NewUserEmails :
             Cardinality(UsersByEmail(userCollection, email)) <= 1)
    /\ [][\A c \in 1..Len(calls') :
             (/\ c > Len(calls) \/ calls'[c] # calls[c]
              /\ FindUserByEmail(userCollection, calls'[c].userData.email)
                    # Null) =>
                userCollection' = userCollection]_vars

-----------------------------------------------------------------------------
(* C23 *)

\* C23: when only /new-comment and /delete-comment calls were made and all
\* of them have completed, every post's commentsCount is the number of
\* comments whose postId is that post.
C23_CommentsCount ==
    (/\ NoCallInProgress
     /\ \A c \in 1..Len(calls) :
           calls[c].route \in {"new-comment", "delete-comment"}) =>
       \A id \in DOMAIN postCollection :
          postCollection[id].commentsCount = Cardinality(CommentsOf(id))

-----------------------------------------------------------------------------
(* C24 *)

\* C24: when a /delete-post call for a post has completed and no call is
\* in progress, no comment references that post.
C24_Cascade ==
    NoCallInProgress =>
       \A c \in 1..Len(calls) :
          calls[c].route = "delete-post" => CommentsOf(calls[c].postId) = {}

-----------------------------------------------------------------------------
(* C25 *)

\* C25: when PATCH /users/make-admin for the email of an existing user
\* answers with success, that user has role "admin"; a call for an email
\* with no user changes no user document.
C25_MakeAdmin ==
    [][\A c \in 1..Len(calls) :
          (calls[c].pc # "done" /\ calls'[c].pc = "done") =>
             /\ (calls'[c].status = 200
                   /\ FindUserByEmail(userCollection, calls[c].email) # Null)
                   => FindUserByEmail(userCollection', calls[c].email).role
                         = "admin"
             /\ FindUserByEmail(userCollection, calls[c].email) = Null
                   => userCollection' = userCollection]_vars

-----------------------------------------------------------------------------
(* C26 *)

\* C26: verifyAdmin answers 401 "Access Denied! unauthorized user" to
\* every token-verified request whose lookup returns no user or a user
\* that is no admin; it leaves no such request thrown or unanswered.
C26_AdminGuardAnswers ==
    [][(Len(calls') = Len(calls) + 1
          /\ VerifyToken(calls'[Len(calls')].token).next) =>
          LET call == calls'[Len(calls')]
              user == FindUserById(userCollection, call.user.userId)
          IN  (user = Null \/ user.role # "admin") =>
                 /\ call.pc = "done"
                 /\ call.status = 401
                 /\ call.body = [message |-> "Access Denied! unauthorized user"]]_vars

-----------------------------------------------------------------------------
(* C27 *)

\* C27: a /new-tag request that has run to its end called res.send once:
\* with {success: true} when it inserted the tag, with {success: false}
\* when it found a tag with its tagName.
C27_OneResponse ==
    [][\A c \in 1..Len(calls') :
          (/\ c > Len(calls) \/ calls[c].pc = "insertOne"
           /\ calls'[c].pc # "insertOne") =>
             /\ Len(calls'[c].sent) = 1
             /\ calls'[c].sent[1] =
                   [success |-> tagsCollection' # tagsCollection]]_vars

-----------------------------------------------------------------------------
(* C28 *)

\* C28: no answer of GET /all-posts, whatever its page, limit and
\* searchTerm, lists a post that is private in the store at the time of
\* the request, so a post set private is absent from the next answer on.
C28_NoPrivatePost ==
    [][(/\ Len(calls') = Len(calls) + 1
        /\ calls'[Len(calls')].route = "all-posts"
        /\ calls'[Len(calls')].pc = "done") =>
          \A i \in DOMAIN calls'[Len(calls')].body :
             LET doc == calls'[Len(calls')].body[i]
             IN  /\ doc.visibility # "private"
                 /\ doc._id \in DOMAIN postCollection
                 /\ postCollection[doc._id].visibility # "private"]_vars

\* A post with the tag "js" was set private, and the answer to a search
\* for "js" lists the other post without it.
C28_Witness ==
    /\ Len(calls) = 2
    /\ calls[1].route = "update-post-visibility"
    /\ calls[1].id = "p2"
    /\ calls[1].visibility = "private"
    /\ calls[2].route = "all-posts"
    /\ calls[2].pc = "done"
    /\ calls[2].searchTerm = "js"
    /\ {calls[2].body[i]._id : i \in DOMAIN calls[2].body} = {"p1"}

====
